---- MODULE Spec2Model ----
(***************************************************************************)
(* Model of the transport message codec (ockam_core TransportMessage), of  *)
(* the route handling of a router hop, of the SplitPolicies data migration *)
(* (ockam_node) and of DeleteCommandTui::delete (ockam_command).           *)
(*                                                                         *)
(* Bytes are integers 0..255, byte strings are sequences of bytes, a Rust  *)
(* String is the sequence of the bytes of its UTF-8 encoding, and an       *)
(* Option<T> is a sequence of length 0 (None) or 1 (Some(x)).              *)
(***************************************************************************)
EXTENDS Integers, Sequences, FiniteSets, TLC

VARIABLES
    feature,                \* sender's build: TRUE when feature "tracing_context" is on
    msg,                    \* the TransportMessage handed to encode
    wire,                   \* the bytes in flight
    origin,                 \* how the bytes in flight came about
    tail,                   \* bytes that follow the mandatory prefix (origin "ext")
    resT,                   \* what a tracing-aware receiver's decode returned
    resP,                   \* what a tracing-unaware receiver's decode returned
    onward_route,           \* routed message: hops remaining
    return_route,           \* routed message: hops traversed
    route0,                 \* the routes the message was sent with
    hops,                   \* number of router hops taken
    pop_result,             \* what the last pop_front returned
    resource_policy,        \* table resource_policy, in rowid order
    resource_type_policy,   \* table resource_type_policy, in rowid order
    migrated,               \* names recorded by mark_as_migrated
    db0,                    \* the tables before the first call
    calls,                  \* the calls of migrate_policies made so far, oldest first
    tui_self,               \* DeleteCommandTui: the command's arguments and its environment
    tui_calls,              \* delete_single / delete_multiple invocations, oldest first
    tui_stdout,             \* lines written to the terminal
    tui_result              \* what delete returned: "none" before the call

codecVars == <<feature, msg, wire, origin, tail, resT, resP>>
routeVars == <<onward_route, return_route, route0, hops, pop_result>>
dbVars    == <<resource_policy, resource_type_policy, migrated, db0, calls>>
tuiVars   == <<tui_self, tui_calls, tui_stdout, tui_result>>
vars      == <<codecVars, routeVars, dbVars, tuiVars>>

None    == <<>>
Some(x) == <<x>>

\* bounds of the model
MaxRoute   == 2     \* addresses per route of an encoded message
MaxPayload == 2     \* payload bytes of an encoded message
MaxToken   == 2     \* bytes of a tracing token
MaxRaw     == 5     \* length of an arbitrary received buffer
MaxTail    == 4     \* bytes appended after a mandatory prefix
MaxHops    == 3     \* addresses of the onward route of a routed message
MaxRows    == 3     \* rows of table resource_policy before the migration
MaxCalls   == 3     \* calls of migrate_policies
MaxItems   == 3     \* items listed by list_items_names

RECURSIVE BSeq(_, _)
\* all sequences over S of length at most n
BSeq(S, n) ==
    IF n = 0 THEN {<<>>}
    ELSE LET shorter == BSeq(S, n - 1)
         IN  shorter \cup {Append(s, b) : s \in {t \in shorter : Len(t) = n - 1}, b \in S}

(***************************************************************************)
(* crate::bare: variable-length unsigned integers (7 bits per byte, least  *)
(* significant group first, high bit set on every byte but the last),      *)
(* length-prefixed byte strings, length-prefixed UTF-8 strings.            *)
(* Readers take the slice and the cursor (0-based, as in the source) and   *)
(* return None, or Some of the value and the advanced cursor.              *)
(***************************************************************************)
RECURSIVE write_variable_length_integer(_, _)
write_variable_length_integer(vec, value) ==
    IF value < 128 THEN Append(vec, value)
    ELSE write_variable_length_integer(Append(vec, 128 + (value % 128)), value \div 128)

RECURSIVE read_variable_length_integer(_, _)
read_variable_length_integer(slice, index) ==
    IF index >= Len(slice) THEN None
    ELSE LET byte == slice[index + 1]
         IN  IF byte < 128 THEN Some([value |-> byte, index |-> index + 1])
             ELSE LET rest == read_variable_length_integer(slice, index + 1)
                  IN  IF rest = None THEN None
                      ELSE Some([value |-> (byte - 128) + 128 * rest[1].value,
                                 index |-> rest[1].index])

write_slice(vec, bytes) == write_variable_length_integer(vec, Len(bytes)) \o bytes

read_slice(slice, index) ==
    LET length == read_variable_length_integer(slice, index)
    IN  IF length = None THEN None
        ELSE IF length[1].index + length[1].value > Len(slice) THEN None
        ELSE Some([value |-> SubSeq(slice, length[1].index + 1,
                                    length[1].index + length[1].value),
                   index |-> length[1].index + length[1].value])

IsCont(b) == b >= 128 /\ b <= 191

RECURSIVE from_utf8(_)
\* core::str::from_utf8: Some(the same bytes) when they are well-formed UTF-8
from_utf8(bytes) ==
    LET n == Len(bytes)
        b1 == bytes[1]
        width == IF b1 < 128 THEN 1
                 ELSE IF b1 >= 194 /\ b1 <= 223 THEN 2
                 ELSE IF b1 >= 224 /\ b1 <= 239 THEN 3
                 ELSE IF b1 >= 240 /\ b1 <= 244 THEN 4
                 ELSE 0
        second_ok == CASE b1 = 224 -> bytes[2] >= 160 /\ bytes[2] <= 191
                       [] b1 = 237 -> bytes[2] >= 128 /\ bytes[2] <= 159
                       [] b1 = 240 -> bytes[2] >= 144 /\ bytes[2] <= 191
                       [] b1 = 244 -> bytes[2] >= 128 /\ bytes[2] <= 143
                       [] OTHER    -> IsCont(bytes[2])
    IN  IF n = 0 THEN Some(<<>>)
        ELSE IF width = 0 \/ width > n THEN None
        ELSE IF width >= 2 /\ ~second_ok THEN None
        ELSE IF \E i \in 3..width : ~IsCont(bytes[i]) THEN None
        ELSE LET rest == from_utf8(SubSeq(bytes, width + 1, n))
             IN  IF rest = None THEN None ELSE Some(bytes)

write_str(vec, string) == write_slice(vec, string)

read_str(slice, index) ==
    LET bytes == read_slice(slice, index)
    IN  IF bytes = None THEN None
        ELSE IF from_utf8(bytes[1].value) = None THEN None
        ELSE bytes

(***************************************************************************)
(* Address and Route: a route is the sequence of its addresses, position 1 *)
(* the next hop; an address is a transport type tag and a value.           *)
(***************************************************************************)
Address(tt, inner) == [tt |-> tt, inner |-> inner]

RECURSIVE encode_addresses(_, _)
encode_addresses(vec, route) ==
    IF route = <<>> THEN vec
    ELSE encode_addresses(write_slice(Append(vec, Head(route).tt), Head(route).inner),
                          Tail(route))

manual_encode(vec, route) ==
    encode_addresses(write_variable_length_integer(vec, Len(route)), route)

RECURSIVE decode_addresses(_, _, _, _)
decode_addresses(slice, index, count, acc) ==
    IF count = 0 THEN Some([value |-> acc, index |-> index])
    ELSE IF index >= Len(slice) THEN None
    ELSE LET inner == read_slice(slice, index + 1)
         IN  IF inner = None THEN None
             ELSE decode_addresses(slice, inner[1].index, count - 1,
                                   Append(acc, Address(slice[index + 1], inner[1].value)))

manual_decode(slice, index) ==
    LET count == read_variable_length_integer(slice, index)
    IN  IF count = None THEN None
        ELSE IF count[1].index + count[1].value > Len(slice) THEN None
        ELSE decode_addresses(slice, count[1].index, count[1].value, <<>>)

\* pop_front that returns the head and leaves it on the route
pop_front_peek(route) ==
    IF route = <<>> THEN [result |-> None, route |-> route]
    ELSE [result |-> Some(Head(route)), route |-> route]

pop_front(route) ==
    IF route = <<>> THEN [result |-> None, route |-> route]
    ELSE [result |-> Some(Head(route)), route |-> Tail(route)]

push_front(route, addr) == <<addr>> \o route

(***************************************************************************)
(* TransportMessage.  `tracing` is the build's feature "tracing_context":  *)
(* the struct has the field tracing_context only in a build that has it.   *)
(***************************************************************************)
Ok(x) == [ok |-> TRUE, value |-> x]
ProtocolError == [ok |-> FALSE, origin |-> "Transport", kind |-> "Protocol"]

v1(onward, return, payload, tracing) ==
    IF tracing
    THEN [version |-> 1, onward_route |-> onward, return_route |-> return,
          payload |-> payload, tracing_context |-> None]
    ELSE [version |-> 1, onward_route |-> onward, return_route |-> return,
          payload |-> payload]

\* line 155 pushes the presence byte 1 onto `vec`, which is not the buffer
\* `encoded` that is returned: the byte does not reach the output.
encode(self, tracing) ==
    LET encoded1 == <<self.version>>
        encoded2 == manual_encode(encoded1, self.onward_route)
        encoded3 == manual_encode(encoded2, self.return_route)
        encoded4 == write_slice(encoded3, self.payload)
        encoded5 == IF tracing
                    THEN IF self.tracing_context # None
                         THEN write_str(encoded4, self.tracing_context[1])
                         ELSE Append(encoded4, 0)
                    ELSE encoded4
    IN  Ok(encoded5)

\* internal_decode with one of these slips:
\*   "flag_required"   the presence byte is read with `?`
\*   "nonzero_flag"    every non-zero presence byte announces a token
\*   "lenient_payload" an unreadable payload is taken to be empty
\*   "strict_end"      the tracing-unaware decoder rejects trailing bytes
\*   "token_required"  the token is read with `?`
\*   "version_checked" a version byte 0 is rejected
internal_decode_slip(slice, tracing, slip) ==
    IF Len(slice) = 0 THEN None
    ELSE
    LET version == slice[1]
        onward == manual_decode(slice, 1)
        return == IF onward = None THEN None ELSE manual_decode(slice, onward[1].index)
        read == IF return = None THEN None ELSE read_slice(slice, return[1].index)
        payload == IF slip = "lenient_payload" /\ return # None /\ read = None
                   THEN Some([value |-> <<>>, index |-> Len(slice)])
                   ELSE read
    IN  IF onward = None \/ return = None \/ payload = None THEN None
        ELSE IF slip = "version_checked" /\ version = 0 THEN None
        ELSE IF tracing
        THEN LET index == payload[1].index
                 present == IF index < Len(slice) THEN slice[index + 1] ELSE 0
                 announced == IF slip = "nonzero_flag" THEN present # 0 ELSE present = 1
                 token == IF announced THEN read_str(slice, index + 1) ELSE None
                 tracing_context == IF token = None THEN None ELSE Some(token[1].value)
             IN  IF slip = "flag_required" /\ index >= Len(slice) THEN None
                 ELSE IF slip = "token_required" /\ announced /\ token = None THEN None
                 ELSE Some([version |-> version, onward_route |-> onward[1].value,
                            return_route |-> return[1].value, payload |-> payload[1].value,
                            tracing_context |-> tracing_context])
        ELSE IF slip = "strict_end" /\ payload[1].index < Len(slice) THEN None
        ELSE Some([version |-> version, onward_route |-> onward[1].value,
                   return_route |-> return[1].value, payload |-> payload[1].value])

internal_decode_flag_required(slice, tracing) ==
    internal_decode_slip(slice, tracing, "flag_required")

internal_decode_nonzero_flag(slice, tracing) ==
    internal_decode_slip(slice, tracing, "nonzero_flag")

internal_decode_lenient_payload(slice, tracing) ==
    internal_decode_slip(slice, tracing, "lenient_payload")

internal_decode_strict_end(slice, tracing) ==
    internal_decode_slip(slice, tracing, "strict_end")

internal_decode_token_required(slice, tracing) ==
    internal_decode_slip(slice, tracing, "token_required")

internal_decode_version_checked(slice, tracing) ==
    internal_decode_slip(slice, tracing, "version_checked")

internal_decode(slice, tracing) ==
    IF Len(slice) = 0 THEN None
    ELSE
    LET version == slice[1]
        onward == manual_decode(slice, 1)
        return == IF onward = None THEN None ELSE manual_decode(slice, onward[1].index)
        payload == IF return = None THEN None ELSE read_slice(slice, return[1].index)
    IN  IF onward = None \/ return = None \/ payload = None THEN None
        ELSE IF tracing
        THEN LET index == payload[1].index
                 present == IF index < Len(slice) THEN slice[index + 1] ELSE 0
                 token == IF present = 1 THEN read_str(slice, index + 1) ELSE None
                 tracing_context == IF token = None THEN None ELSE Some(token[1].value)
             IN  Some([version |-> version, onward_route |-> onward[1].value,
                       return_route |-> return[1].value, payload |-> payload[1].value,
                       tracing_context |-> tracing_context])
        ELSE Some([version |-> version, onward_route |-> onward[1].value,
                   return_route |-> return[1].value, payload |-> payload[1].value])

decode(slice, tracing) ==
    LET m == internal_decode(slice, tracing)
    IN  IF m = None THEN ProtocolError ELSE Ok(m[1])

(***************************************************************************)
(* Inputs of the codec.                                                    *)
(***************************************************************************)
A1 == Address(0, <<110>>)
A2 == Address(1, <<1, 2>>)
AddrSet      == {A1, A2}
PayloadBytes == {1, 200}
TokenChars   == {0, 97}
RawBytes     == {0, 1, 2, 129}
TailBytes    == {0, 1, 2, 169, 195}

Routes   == BSeq(AddrSet, MaxRoute)
Payloads == BSeq(PayloadBytes, MaxPayload)
Tokens   == {None} \cup {Some(t) : t \in BSeq(TokenChars, MaxToken)}

\* the messages whose mandatory prefix received buffers are built from
PrefixMsgs ==
    {[v1(r[1], r[2], p, FALSE) EXCEPT !.version = ver] :
        ver \in {0, 1, 2}, r \in {<< <<>>, <<>> >>, << <<A1, A2>>, <<A2>> >>},
        p \in {<<>>, <<200, 1>>}}

NotRun == [ok |-> FALSE, origin |-> "none", kind |-> "none"]
NoMsg  == [version |-> 0, onward_route |-> <<>>, return_route |-> <<>>, payload |-> <<>>]

RouteIdle ==
    /\ onward_route = <<>>
    /\ return_route = <<>>
    /\ route0 = [onward_route |-> <<>>, return_route |-> <<>>]
    /\ hops = 0
    /\ pop_result = None

DbIdle ==
    /\ resource_policy = <<>>
    /\ resource_type_policy = <<>>
    /\ migrated = {}
    /\ db0 = [resource_policy |-> <<>>, resource_type_policy |-> <<>>]
    /\ calls = <<>>

NoSelf ==
    [items |-> <<>>, list_ok |-> TRUE, cmd_arg_item_name |-> <<>>, cmd_arg_delete_all |-> FALSE,
     cmd_arg_confirm_deletion |-> FALSE, can_ask_for_user_input |-> FALSE, answer_all |-> "false",
     answer_proceed |-> "false", selected |-> {}, delete_ok |-> TRUE, write_ok |-> TRUE]

TuiIdle ==
    /\ tui_self = NoSelf
    /\ tui_calls = <<>>
    /\ tui_stdout = <<>>
    /\ tui_result = "none"

CodecIdle ==
    /\ feature = FALSE
    /\ msg = NoMsg
    /\ wire = <<>>
    /\ origin = "none"
    /\ tail = <<>>
    /\ resT = NotRun
    /\ resP = NotRun

\* a sender holds a message built by v1, in a tracing-aware build possibly
\* with a tracing context set (start_new_tracing_context); or the bytes in
\* flight come from a peer that wrote presence byte 1 and a token ("peer")
InitCodec ==
    /\ \/ /\ \E f \in BOOLEAN, on \in Routes, rr \in Routes, p \in Payloads, tc \in Tokens :
                /\ feature = f
                /\ msg = IF f THEN [v1(on, rr, p, TRUE) EXCEPT !.tracing_context = tc]
                              ELSE v1(on, rr, p, FALSE)
          /\ wire = <<>>
          /\ origin = "none"
       \/ \E m \in PrefixMsgs, t \in BSeq(TokenChars, MaxToken) :
             /\ feature = TRUE
             /\ msg = [version |-> m.version, onward_route |-> m.onward_route,
                       return_route |-> m.return_route, payload |-> m.payload,
                       tracing_context |-> Some(t)]
             /\ wire = write_str(Append(encode(m, FALSE).value, 1), t)
             /\ origin = "peer"
    /\ tail = <<>>
    /\ resT = NotRun
    /\ resP = NotRun
    /\ RouteIdle
    /\ DbIdle
    /\ TuiIdle

\* a receiver holds a buffer: arbitrary bytes ("raw"), a mandatory prefix
\* followed by further bytes ("ext"), or a truncated encoding ("cut")
InitWire ==
    /\ feature = FALSE
    /\ \/ /\ wire \in BSeq(RawBytes, MaxRaw)
          /\ origin = "raw"
          /\ msg = NoMsg
          /\ tail = <<>>
       \/ \E m \in PrefixMsgs, t \in BSeq(TailBytes, MaxTail) :
             /\ wire = encode(m, FALSE).value \o t
             /\ origin = "ext"
             /\ msg = m
             /\ tail = t
       \/ \E m \in PrefixMsgs :
             \E k \in 0..(Len(encode(m, FALSE).value) - 1) :
                /\ wire = SubSeq(encode(m, FALSE).value, 1, k)
                /\ origin = "cut"
                /\ msg = m
                /\ tail = <<>>
    /\ resT = NotRun
    /\ resP = NotRun
    /\ RouteIdle
    /\ DbIdle
    /\ TuiIdle

\* the sender encodes its message and sends the bytes
Encode ==
    /\ origin = "none"
    /\ LET encoded == encode(msg, feature)
       IN  /\ encoded.ok
           /\ wire' = encoded.value
    /\ origin' = "encode"
    /\ UNCHANGED <<feature, msg, tail, resT, resP, routeVars, dbVars, tuiVars>>

\* a receiver built with (tracing) or without the feature decodes the bytes
Decode(tracing) ==
    /\ origin # "none"
    /\ IF tracing
       THEN resT = NotRun /\ resT' = decode(wire, TRUE) /\ UNCHANGED resP
       ELSE resP = NotRun /\ resP' = decode(wire, FALSE) /\ UNCHANGED resT
    /\ UNCHANGED <<feature, msg, wire, origin, tail, routeVars, dbVars, tuiVars>>

NextCodec ==
    \/ Encode
    \/ \E tracing \in BOOLEAN : Decode(tracing)

NextWire == \E tracing \in BOOLEAN : Decode(tracing)

SpecCodec == InitCodec /\ [][NextCodec]_vars
SpecWire  == InitWire /\ [][NextWire]_vars

(***************************************************************************)
(* The wire grammar, stated over positions (1-based): the sets of          *)
(* positions at which a field that starts at position i can end.           *)
(***************************************************************************)
RECURSIVE UintValue(_, _, _)
\* the value of the variable-length integer held by s[i..j]
UintValue(s, i, j) ==
    IF i = j THEN s[i] ELSE (s[i] - 128) + 128 * UintValue(s, i + 1, j)

UintEnds(s, i) ==
    {j \in i..Len(s) : s[j] < 128 /\ \A k \in i..(j - 1) : s[k] >= 128}

BytesEnds(s, i) ==
    {e \in 0..Len(s) : \E j \in UintEnds(s, i) : e = j + UintValue(s, i, j)}

RECURSIVE AddressesEnds(_, _, _)
\* n addresses (a tag byte, then length-prefixed bytes) that start at i
AddressesEnds(s, i, n) ==
    IF n = 0 THEN {i - 1}
    ELSE IF i > Len(s) THEN {}
    ELSE UNION {AddressesEnds(s, e + 1, n - 1) : e \in BytesEnds(s, i + 1)}

RouteEnds(s, i) ==
    UNION {AddressesEnds(s, j + 1, UintValue(s, i, j)) : j \in UintEnds(s, i)}

\* version, onward route, return route and payload can all be read from s
MandatoryReadable(s) ==
    /\ Len(s) >= 1
    /\ \E a \in RouteEnds(s, 2) : \E b \in RouteEnds(s, a + 1) : BytesEnds(s, b + 1) # {}

\* t starts with a length-prefixed well-formed UTF-8 string
ValidBareString(t) ==
    \E j \in UintEnds(t, 1) :
        /\ j + UintValue(t, 1, j) <= Len(t)
        /\ from_utf8(SubSeq(t, j + 1, j + UintValue(t, 1, j))) # None

\* the bytes of the mandatory prefix of message m
PrefixBytes(m) ==
    write_slice(manual_encode(manual_encode(<<m.version>>, m.onward_route),
                              m.return_route), m.payload)

\* decode result r carries the version, routes and payload of message m
SamePrefix(r, m) ==
    /\ r.ok
    /\ r.value.version = m.version
    /\ r.value.onward_route = m.onward_route
    /\ r.value.return_route = m.return_route
    /\ r.value.payload = m.payload

\* what the sender's own build decodes
resOwn == IF feature THEN resT ELSE resP

(***************************************************************************)
(* Claims about the codec.                                                 *)
(***************************************************************************)

\* C1: a message built by v1 (in a tracing-aware build possibly with its
\* tracing context set to Some(token)) is returned unchanged, in every
\* field, by decode applied to its encoding, in the build that encoded it.
C1_RoundTrip ==
    (origin = "encode" /\ resOwn # NotRun) => resOwn = Ok(msg)

\* The round trip holds whenever no tracing context is set.
RoundTripWithoutToken ==
    (origin = "encode" /\ resOwn # NotRun /\ (feature => msg.tracing_context = None))
        => resOwn = Ok(msg)

\* C2: the bytes version ++ onward route ++ return route ++ payload, with
\* nothing after the payload, are decoded by the tracing-aware decoder to
\* the same version, routes and payload, with no tracing context.
C2_BackwardCompatible ==
    (origin = "ext" /\ tail = <<>> /\ resT # NotRun)
        => (SamePrefix(resT, msg) /\ resT.value.tracing_context = None)

C2_Witness ==
    /\ origin = "ext" /\ tail = <<>> /\ wire = PrefixBytes(msg)
    /\ msg.version = 2 /\ msg.onward_route = <<A1, A2>> /\ msg.payload = <<200, 1>>
    /\ resT # NotRun /\ resT.ok

\* C3: a mandatory prefix followed by a flag byte other than 1 and then by
\* any further bytes is decoded by the tracing-aware decoder to the
\* version, routes and payload of the prefix, with no tracing context.
C3_ForwardTolerant ==
    (origin = "ext" /\ tail # <<>> /\ tail[1] # 1 /\ resT # NotRun)
        => (SamePrefix(resT, msg) /\ resT.value.tracing_context = None)

C3_Witness ==
    /\ origin = "ext" /\ Len(tail) = MaxTail /\ tail[1] = 2 /\ tail[2] = 1
    /\ msg.return_route = <<A2>>
    /\ resT # NotRun /\ resT.ok

\* C4: when the version byte, a route or the payload cannot be read
\* completely, decode returns the error Transport/Protocol and no message,
\* in either build; so it does for an encoding cut before the payload's
\* length prefix.
C4_MandatoryPrefixFatal ==
    LET unreadable == ~MandatoryReadable(wire)
        cut_short == /\ origin = "cut"
                     /\ Len(wire) <= Len(manual_encode(manual_encode(<<msg.version>>,
                                              msg.onward_route), msg.return_route))
    IN  (resT # NotRun \/ resP # NotRun)
            => \A r \in {resT, resP} :
                  (r # NotRun /\ (unreadable \/ cut_short)) => r = ProtocolError

C4_Witness ==
    /\ origin = "cut" /\ msg.onward_route = <<A1, A2>> /\ msg.return_route = <<A2>>
    /\ Len(wire) = 10
    /\ ~MandatoryReadable(wire)
    /\ resT = ProtocolError /\ resP = ProtocolError

\* C5: bytes written by the tracing-aware encoder, and bytes that hold
\* presence byte 1 and a token after the payload, are decoded by the
\* tracing-unaware decoder successfully, to the version, routes and payload
\* of the message, the same as the tracing-aware decoder returns for them.
C5_CrossBuild ==
    (feature /\ origin \in {"encode", "peer"} /\ resP # NotRun)
        => /\ SamePrefix(resP, msg)
           /\ resT # NotRun => SamePrefix(resT, resP.value)

C5_Witness ==
    /\ feature /\ origin = "encode" /\ msg.tracing_context = Some(<<97, 0>>)
    /\ msg.onward_route # <<>> /\ Len(msg.payload) = 2
    /\ resP # NotRun /\ resP.ok /\ resT # NotRun /\ resT.ok

\* C6: encode returns Ok with the version byte, the encoded onward route,
\* the encoded return route and the length-prefixed payload, followed in a
\* tracing-aware build by the presence byte 0 when there is no tracing
\* context and by the presence byte 1 and the length-prefixed token when
\* there is one, and by nothing in a tracing-unaware build.
C6_WireLayout ==
    origin = "encode" =>
        wire = PrefixBytes(msg) \o
               (IF ~feature THEN <<>>
                ELSE IF msg.tracing_context = None THEN <<0>>
                ELSE write_slice(<<1>>, msg.tracing_context[1]))

\* C7: with a readable mandatory prefix, presence byte 1 and bytes after
\* it that are not a length-prefixed well-formed UTF-8 string, decode
\* returns the protocol error.
C7_InvalidTokenFails ==
    (origin = "ext" /\ tail # <<>> /\ tail[1] = 1 /\ ~ValidBareString(Tail(tail))
       /\ resT # NotRun)
        => resT = ProtocolError

\* C7, amended: with a readable mandatory prefix, presence byte 1 and bytes
\* after it that are not a length-prefixed well-formed UTF-8 string, decode
\* succeeds with the version, routes and payload of the prefix and with no
\* tracing context: the unreadable token is dropped, not repaired.
C7_InvalidTokenDropped ==
    (origin = "ext" /\ tail # <<>> /\ tail[1] = 1 /\ ~ValidBareString(Tail(tail))
       /\ resT # NotRun)
        => (SamePrefix(resT, msg) /\ resT.value.tracing_context = None)

C7_Witness ==
    /\ origin = "ext" /\ tail = <<1, 2, 195, 2>>
    /\ ~ValidBareString(Tail(tail))
    /\ resT # NotRun /\ resT.ok

\* C11: every message that decode returns has version >= 1: a buffer whose
\* version byte is 0 is not accepted, and a buffer with version byte 1 and
\* a readable mandatory prefix is accepted.
C11_VersionAtLeastOne ==
    \A r \in {resT, resP} :
        r # NotRun =>
            /\ r.ok => r.value.version >= 1
            /\ (wire # <<>> /\ wire[1] = 0) => ~r.ok
            /\ (origin = "ext" /\ msg.version = 1) => r.ok

\* C11, amended: decode does not look at the version: a buffer with a
\* readable mandatory prefix is accepted whatever its version byte (0
\* included) and the message returned carries that byte as its version;
\* so a buffer with version byte 1 and a readable prefix is accepted.
C11_VersionUnchecked ==
    \A r \in {resT, resP} :
        r # NotRun =>
            /\ r.ok => r.value.version = wire[1]
            /\ origin = "ext" => (r.ok /\ r.value.version = msg.version)
            /\ (origin = "raw" /\ MandatoryReadable(wire)) => r.ok

C11_Witness ==
    /\ origin = "ext" /\ msg.version = 0 /\ wire[1] = 0 /\ msg.onward_route = <<A1, A2>>
    /\ resT # NotRun /\ resT.ok /\ resT.value.version = 0
    /\ resP # NotRun /\ resP.ok /\ resP.value.version = 0

(***************************************************************************)
(* A message on its way: each router pops the head of the onward route     *)
(* (its own address) and pushes its own address onto the return route.     *)
(***************************************************************************)
InitRoute ==
    /\ \E on \in BSeq(AddrSet, MaxHops) \ {<<>>}, rr \in BSeq(AddrSet, 1) :
          /\ onward_route = on
          /\ return_route = rr
          /\ route0 = [onward_route |-> on, return_route |-> rr]
    /\ hops = 0
    /\ pop_result = None
    /\ CodecIdle
    /\ DbIdle
    /\ TuiIdle

\* a router handles the message; with nothing left to pop it forwards nothing
RouterHop ==
    /\ LET popped == pop_front(onward_route)
       IN  /\ pop_result' = popped.result
           /\ onward_route' = popped.route
           /\ IF popped.result = None
              THEN UNCHANGED <<return_route, hops>>
              ELSE /\ return_route' = push_front(return_route, popped.result[1])
                   /\ hops' = hops + 1
    /\ UNCHANGED <<route0, codecVars, dbVars, tuiVars>>

NextRoute == RouterHop

SpecRoute == InitRoute /\ [][NextRoute]_vars

RECURSIVE Reverse(_)
Reverse(s) == IF s = <<>> THEN <<>> ELSE Append(Reverse(Tail(s)), Head(s))

\* C8: after k hops an onward route of N addresses has its last N - k
\* addresses left and the return route has grown at its front by the k
\* addresses popped, the latest first; the onward route is empty after
\* exactly N hops and not before; a pop on an empty route returns nothing
\* and changes neither route.
C8_RouteStack ==
    /\ [](LET N == Len(route0.onward_route)
          IN  /\ hops \in 0..N
              /\ Len(onward_route) = N - hops
              /\ Len(return_route) = Len(route0.return_route) + hops
              /\ onward_route = SubSeq(route0.onward_route, hops + 1, N)
              /\ return_route = Reverse(SubSeq(route0.onward_route, 1, hops))
                                    \o route0.return_route
              /\ (onward_route = <<>>) <=> (hops = N))
    /\ [][onward_route = <<>>
            => (pop_result' = None /\ UNCHANGED <<onward_route, return_route, hops>>)]_vars

C8_Witness ==
    /\ Len(route0.onward_route) = MaxHops /\ route0.return_route = <<A2>>
    /\ hops = MaxHops /\ onward_route = <<>> /\ Len(return_route) = MaxHops + 1
    /\ pop_result = None

(***************************************************************************)
(* SplitPolicies::migrate_policies on a database: the two tables, as the   *)
(* sequences of their rows, and the set of the migrations recorded.        *)
(***************************************************************************)
migration_name == "migration_20240212100000_migrate_policies"

has_migrated(pool, name) == name \in pool.migrated

mark_as_migrated(pool, name) == [pool EXCEPT !.migrated = @ \cup {name}]

\* the steps of migrate_policies that may return an error
Faults == {"none", "has_migrated", "transaction", "mark_as_migrated"}

RECURSIVE copy_resource_type_policies(_, _)
\* the loop over the selected rows, inserting into resource_type_policy
copy_resource_type_policies(rows, table) ==
    IF rows = <<>> THEN table
    ELSE LET row == Head(rows)
         IN  copy_resource_type_policies(Tail(rows),
                 IF row.resource_name = "tcp-outlet" \/ row.resource_name = "tcp-inlet"
                 THEN Append(table, [resource_type |-> row.resource_name,
                                     action |-> row.action,
                                     expression |-> row.expression,
                                     node_name |-> row.node_name])
                 ELSE table)

delete_resource_type_policies(table) ==
    SelectSeq(table, LAMBDA row :
        ~(row.resource_name = "tcp-outlet" \/ row.resource_name = "tcp-inlet"))

\* migrate_policies whose statements are not in a transaction: an error after
\* the rows are copied leaves them copied and not deleted
migrate_policies_autocommit(pool, fault) ==
    IF fault = "has_migrated" THEN [pool |-> pool, result |-> "error"]
    ELSE IF has_migrated(pool, migration_name) THEN [pool |-> pool, result |-> "false"]
    ELSE LET copied == [pool EXCEPT !.resource_type_policy =
                           copy_resource_type_policies(pool.resource_policy, @)]
             committed == [copied EXCEPT
                             !.resource_policy = delete_resource_type_policies(@)]
         IN  IF fault = "transaction" THEN [pool |-> copied, result |-> "error"]
             ELSE IF fault = "mark_as_migrated"
             THEN [pool |-> committed, result |-> "error"]
             ELSE [pool |-> mark_as_migrated(committed, migration_name),
                   result |-> "true"]

\* migrate_policies that copies the rows and does not delete them
migrate_policies_keep(pool, fault) ==
    IF fault # "none" THEN [pool |-> pool, result |-> "error"]
    ELSE IF has_migrated(pool, migration_name) THEN [pool |-> pool, result |-> "false"]
    ELSE [pool |-> mark_as_migrated(
                      [pool EXCEPT !.resource_type_policy =
                          copy_resource_type_policies(pool.resource_policy, @)],
                      migration_name),
          result |-> "true"]

\* migrate_policies that does not look at has_migrated
migrate_policies_again(pool, fault) ==
    IF fault # "none" THEN [pool |-> pool, result |-> "error"]
    ELSE [pool |-> mark_as_migrated(
                      [pool EXCEPT
                          !.resource_type_policy =
                              copy_resource_type_policies(pool.resource_policy, @),
                          !.resource_policy = delete_resource_type_policies(@)],
                      migration_name),
          result |-> "true"]

\* the result is "true" for Ok(true), "false" for Ok(false), "error" for Err;
\* an error inside the transaction drops it, which rolls it back
migrate_policies(pool, fault) ==
    IF fault = "has_migrated" THEN [pool |-> pool, result |-> "error"]
    ELSE IF has_migrated(pool, migration_name) THEN [pool |-> pool, result |-> "false"]
    ELSE IF fault = "transaction" THEN [pool |-> pool, result |-> "error"]
    ELSE LET rows == pool.resource_policy
             committed == [pool EXCEPT
                             !.resource_type_policy = copy_resource_type_policies(rows, @),
                             !.resource_policy = delete_resource_type_policies(@)]
         IN  IF fault = "mark_as_migrated" THEN [pool |-> committed, result |-> "error"]
             ELSE [pool |-> mark_as_migrated(committed, migration_name),
                   result |-> "true"]

ResourceNames == {"tcp-outlet", "tcp-inlet", "my_outlet_1"}
PolicyRows ==
    [resource_name : ResourceNames, action : {"handle_message"},
     expression : {"e1", "e2"}, node_name : {"n1"}]

InitMigration ==
    /\ resource_policy \in BSeq(PolicyRows, MaxRows)
    /\ resource_type_policy = <<>>
    /\ migrated = {}
    /\ db0 = [resource_policy |-> resource_policy, resource_type_policy |-> <<>>]
    /\ calls = <<>>
    /\ CodecIdle
    /\ RouteIdle
    /\ TuiIdle

\* one call of migrate_policies, with or without an error on its way
MigratePolicies ==
    /\ Len(calls) < MaxCalls
    /\ \E fault \in Faults :
          LET pool == [resource_policy |-> resource_policy,
                       resource_type_policy |-> resource_type_policy,
                       migrated |-> migrated]
              done == migrate_policies(pool, fault)
          IN  /\ resource_policy' = done.pool.resource_policy
              /\ resource_type_policy' = done.pool.resource_type_policy
              /\ migrated' = done.pool.migrated
              /\ calls' = Append(calls, done.result)
    /\ UNCHANGED <<db0, codecVars, routeVars, tuiVars>>

NextMigration == MigratePolicies

SpecMigration == InitMigration /\ [][NextMigration]_vars

\* the number of the elements of s that satisfy Test
Count(s, Test(_)) == Len(SelectSeq(s, Test))

IsTypeName(name) == name \in {"tcp-outlet", "tcp-inlet"}

\* C9: of the calls of migrate_policies that succeed, the first returns
\* true, and every later one returns false and changes neither table.
C9_MigratesOnce ==
    [][(Len(calls') = Len(calls) + 1 /\ calls'[Len(calls')] # "error")
         => IF \E i \in 1..Len(calls) : calls[i] # "error"
            THEN /\ calls'[Len(calls')] = "false"
                 /\ UNCHANGED <<resource_policy, resource_type_policy>>
            ELSE calls'[Len(calls')] = "true"]_vars

C9_Witness ==
    /\ calls = <<"true", "false", "false">>
    /\ Len(resource_type_policy) = 2
    /\ Len(resource_policy) = 1

\* C10: after a first successful run, resource_type_policy holds one row
\* (same action, expression and node_name) for every row of the original
\* resource_policy named "tcp-outlet" or "tcp-inlet" and no other row, and
\* resource_policy holds the original rows of the other names, unchanged.
C10_MovesTypePolicies ==
    (\E i \in 1..Len(calls) : calls[i] = "true")
        => /\ \A t \in {resource_type_policy[i] : i \in DOMAIN resource_type_policy} \cup
                       [resource_type : ResourceNames, action : {"handle_message"},
                        expression : {"e1", "e2"}, node_name : {"n1"}] :
                  Count(resource_type_policy, LAMBDA x : x = t)
                    = IF IsTypeName(t.resource_type)
                      THEN Count(db0.resource_policy, LAMBDA r :
                                    /\ r.resource_name = t.resource_type
                                    /\ r.action = t.action
                                    /\ r.expression = t.expression
                                    /\ r.node_name = t.node_name)
                      ELSE 0
           /\ resource_policy
                = SelectSeq(db0.resource_policy, LAMBDA r : ~IsTypeName(r.resource_name))

C10_Witness ==
    /\ calls = <<"true">>
    /\ Len(db0.resource_policy) = 3
    /\ Len(resource_type_policy) = 2
    /\ resource_type_policy[1].resource_type = "tcp-outlet"
    /\ resource_type_policy[2].resource_type = "tcp-inlet"
    /\ Len(resource_policy) = 1

\* C13: whatever calls of migrate_policies failed (before the commit, or
\* after it and before the migration is recorded) or were run again, every
\* original row named "tcp-outlet" or "tcp-inlet" is in exactly one of the
\* two tables, as often as it was in resource_policy at first, and the rows
\* of the other names are in resource_policy as at first and nowhere else.
C13_NeverLostNorDuplicated ==
    /\ \A r \in PolicyRows \cup {db0.resource_policy[i] : i \in DOMAIN db0.resource_policy} :
          LET here  == Count(resource_policy, LAMBDA x : x = r)
              there == Count(resource_type_policy, LAMBDA t :
                                /\ t.resource_type = r.resource_name
                                /\ t.action = r.action
                                /\ t.expression = r.expression
                                /\ t.node_name = r.node_name)
              first == Count(db0.resource_policy, LAMBDA x : x = r)
          IN  /\ here + there = first
              /\ IsTypeName(r.resource_name) => (here = 0 \/ there = 0)
              /\ ~IsTypeName(r.resource_name) => (here = first /\ there = 0)
    /\ Len(resource_policy) + Len(resource_type_policy) = Len(db0.resource_policy)

C13_Witness ==
    /\ calls = <<"error", "error", "true">>
    /\ Len(db0.resource_policy) = 3
    /\ Len(resource_type_policy) = 2
    /\ Len(resource_policy) = 1
    /\ resource_policy[1].resource_name = "my_outlet_1"

(***************************************************************************)
(* DeleteCommandTui::delete.  `self` holds the command's arguments and     *)
(* what its environment answers: the items listed, whether the terminal    *)
(* can ask the user, the user's answers to the two confirmation prompts    *)
(* and the user's selection, and whether the deletion and the terminal     *)
(* output succeed.  A Result<bool> is "true", "false" or "error".          *)
(***************************************************************************)
\* the flag confirms by itself; without it the user is asked
confirmed_with_flag_or_prompt(flag, answer) == IF flag THEN "true" ELSE answer

select_multiple(self, items_names) ==
    SelectSeq(items_names, LAMBDA name : name \in self.selected)

delete_single_call == [op |-> "delete_single", items_names |-> <<>>]
delete_multiple_call(items_names) == [op |-> "delete_multiple", items_names |-> items_names]

\* the outcome of delete after it has invoked `call`
Invoked(self, call) ==
    [calls |-> <<call>>, stdout |-> <<>>,
     result |-> IF self.delete_ok THEN "ok" ELSE "error"]

\* the outcome of delete after it has written `line` and invoked nothing
Written(self, line) ==
    IF self.write_ok THEN [calls |-> <<>>, stdout |-> <<line>>, result |-> "ok"]
    ELSE [calls |-> <<>>, stdout |-> <<>>, result |-> "error"]

Returned(result) == [calls |-> <<>>, stdout |-> <<>>, result |-> result]

\* the last step of the interactive branches: ask to proceed, then invoke
Proceed(self, call) ==
    LET proceed == confirmed_with_flag_or_prompt(self.cmd_arg_confirm_deletion, self.answer_proceed)
    IN  IF proceed = "error" THEN Returned("error")
        ELSE IF proceed = "true" THEN Invoked(self, call)
        ELSE Returned("ok")

delete(self) ==
    IF ~self.list_ok THEN Returned("error")
    ELSE
    LET items_names == self.items
        all == IF self.cmd_arg_delete_all
               THEN confirmed_with_flag_or_prompt(self.cmd_arg_confirm_deletion, self.answer_all)
               ELSE "false"
    IN  IF items_names = <<>> THEN Written(self, "There are no items to delete")
        ELSE IF all = "error" THEN Returned("error")
        ELSE IF all = "true" THEN Invoked(self, delete_multiple_call(items_names))
        ELSE IF self.cmd_arg_item_name # None \/ ~self.can_ask_for_user_input THEN Invoked(self, delete_single_call)
        ELSE IF Len(items_names) = 1 THEN Proceed(self, delete_single_call)
        ELSE LET selected_item_names == select_multiple(self, items_names)
             IN  IF Len(selected_item_names) = 0
                 THEN Written(self, "No items selected to delete")
                 ELSE IF Len(selected_item_names) = 1
                 THEN Proceed(self, delete_single_call)
                 ELSE Proceed(self, delete_multiple_call(selected_item_names))

ItemNames == <<"a", "b", "c", "d", "e">>
Answers   == {"true", "false", "error"}

InitTui ==
    /\ \E n \in 0..MaxItems, list_ok \in BOOLEAN, name \in {None, Some("a")},
          all \in BOOLEAN, yes \in BOOLEAN, ask \in BOOLEAN,
          a1 \in Answers, a2 \in Answers, k \in 0..2, ok \in BOOLEAN :
          tui_self = [items |-> SubSeq(ItemNames, 1, n), list_ok |-> list_ok,
                      cmd_arg_item_name |-> name, cmd_arg_delete_all |-> all,
                      cmd_arg_confirm_deletion |-> yes, can_ask_for_user_input |-> ask,
                      answer_all |-> a1, answer_proceed |-> a2,
                      selected |-> {ItemNames[i] : i \in 1..k},
                      delete_ok |-> ok, write_ok |-> ok]
    /\ tui_calls = <<>>
    /\ tui_stdout = <<>>
    /\ tui_result = "none"
    /\ CodecIdle
    /\ RouteIdle
    /\ DbIdle

\* one call of delete
Delete ==
    /\ tui_result = "none"
    /\ LET done == delete(tui_self)
       IN  /\ tui_calls' = done.calls
           /\ tui_stdout' = done.stdout
           /\ tui_result' = done.result
    /\ UNCHANGED <<tui_self, codecVars, routeVars, dbVars>>

NextTui == Delete

SpecTui == InitTui /\ [][NextTui]_vars

\* C12: when the items listed are not empty, cmd_arg_delete_all() is true
\* and the "delete all" confirmation returns false, delete invokes neither
\* delete_single nor delete_multiple.
C12_DeclinedDeletesNothing ==
    (/\ tui_result # "none"
     /\ tui_self.list_ok /\ tui_self.items # <<>>
     /\ tui_self.cmd_arg_delete_all
     /\ confirmed_with_flag_or_prompt(tui_self.cmd_arg_confirm_deletion, tui_self.answer_all)
          = "false")
        => tui_calls = <<>>

====
